---- MODULE Spec2Model ----
(***************************************************************************)
(* Environment-variable resolution provider (laravel/providers/env).       *)
(*                                                                         *)
(* The Provider owns two Repositories (.env and .env.example) and answers  *)
(* five feature requests about env() accessor nodes.  Every handler first  *)
(* asks the query collaborator for nodes, refreshes both Repositories      *)
(* through the file cache, and then publishes feature-specific results.    *)
(*                                                                         *)
(* Strings are TLA+ strings; Len, SubSeq and \o act on them as on Go       *)
(* strings.  Repository, its parser and the file cache are collaborators   *)
(* whose code is outside provider.go: they are modelled from their         *)
(* documented contracts.                                                   *)
(***************************************************************************)
EXTENDS Integers, Sequences, FiniteSets, TLC

\* Largest number of accessor nodes the query collaborator returns for one
\* range / file request.
MaxNodes == 2

----------------------------------------------------------------------------
(* Strings *)

\* The characters that occur in the modelled files, in ascending byte order.
Alphabet == "\n \"#1=AB_"

Char(s, i) == SubSeq(s, i, i)

Ord(c) == CHOOSE i \in 1..Len(Alphabet) : Char(Alphabet, i) = c

HasPrefix(s, p) == Len(p) <= Len(s) /\ SubSeq(s, 1, Len(p)) = p

\* Bytewise lexical order a < b.
RECURSIVE StrLess(_, _)
StrLess(a, b) ==
    IF Len(b) = 0 THEN FALSE
    ELSE IF Len(a) = 0 THEN TRUE
    ELSE IF Char(a, 1) = Char(b, 1)
         THEN StrLess(SubSeq(a, 2, Len(a)), SubSeq(b, 2, Len(b)))
         ELSE Ord(Char(a, 1)) < Ord(Char(b, 1))

\* Index of the first occurrence of character c in s, 0 when there is none.
IndexOf(s, c) ==
    LET hits == {i \in 1..Len(s) : Char(s, i) = c}
    IN  IF hits = {} THEN 0 ELSE CHOOSE i \in hits : \A j \in hits : i <= j

\* The lines of s: the pieces between line terminators (a trailing terminator
\* leaves a last empty line).
RECURSIVE SplitLines(_)
SplitLines(s) ==
    LET nl == IndexOf(s, "\n")
    IN  IF nl = 0 THEN <<s>>
        ELSE <<SubSeq(s, 1, nl - 1)>> \o SplitLines(SubSeq(s, nl + 1, Len(s)))

\* Number of leading blanks of s.
LeadingBlanks(s) ==
    LET solid == {i \in 1..Len(s) : Char(s, i) /= " "}
    IN  IF solid = {} THEN Len(s)
        ELSE (CHOOSE i \in solid : \A j \in solid : i <= j) - 1

TrimSpace(s) ==
    LET solid == {i \in 1..Len(s) : Char(s, i) /= " "}
    IN  IF solid = {} THEN ""
        ELSE SubSeq(s, CHOOSE i \in solid : \A j \in solid : i <= j,
                       CHOOSE i \in solid : \A j \in solid : j <= i)

\* One optional layer of surrounding quote characters removed.
StripQuotes(s) ==
    IF Len(s) >= 2 /\ Char(s, 1) = "\"" /\ Char(s, Len(s)) = "\""
    THEN SubSeq(s, 2, Len(s) - 1)
    ELSE s

----------------------------------------------------------------------------
(* Definition-file parser and Repository *)

LineKey(line) ==
    LET t == TrimSpace(line)
    IN  TrimSpace(SubSeq(t, 1, IndexOf(t, "=") - 1))

LineValue(line) ==
    LET t == TrimSpace(line)
    IN  StripQuotes(TrimSpace(SubSeq(t, IndexOf(t, "=") + 1, Len(t))))

\* A line defines a key when it is neither blank nor a comment and holds the
\* assignment separator after a non-empty key.
IsDefinition(line) ==
    LET t == TrimSpace(line)
    IN  /\ t /= ""
        /\ Char(t, 1) /= "#"
        /\ IndexOf(t, "=") > 0
        /\ LineKey(line) /= ""

\* A parse that keeps the first line defining a key and ignores later ones.
ParseFirst(content) ==
    LET ls   == SplitLines(content)
        defs == {i \in 1..Len(ls) : IsDefinition(ls[i])}
        keys == {LineKey(ls[i]) : i \in defs}
        first(k) == CHOOSE i \in defs :
                      /\ LineKey(ls[i]) = k
                      /\ \A j \in defs : LineKey(ls[j]) = k => i <= j
    IN  [k \in keys |-> [Value  |-> LineValue(ls[first(k)]),
                         Line   |-> first(k) - 1,
                         Column |-> LeadingBlanks(ls[first(k)])]]

\* The snapshot parsed from a file's content: key -> Metadata of the last
\* line that defines the key (0-indexed line, column of the key).
Parse(content) ==
    LET ls   == SplitLines(content)
        defs == {i \in 1..Len(ls) : IsDefinition(ls[i])}
        keys == {LineKey(ls[i]) : i \in defs}
        last(k) == CHOOSE i \in defs :
                      /\ LineKey(ls[i]) = k
                      /\ \A j \in defs : LineKey(ls[j]) = k => j <= i
    IN  [k \in keys |-> [Value  |-> LineValue(ls[last(k)]),
                         Line   |-> last(k) - 1,
                         Column |-> LeadingBlanks(ls[last(k)])]]

\* The Repository a Provider is constructed with.
EmptyRepo == [k \in {} |-> [Value |-> "", Line |-> 0, Column |-> 0]]

NoMeta == [Value |-> "", Line |-> 0, Column |-> 0]

\* Repository.Get: (Metadata, found).
Get(r, key) ==
    [found |-> key \in DOMAIN r,
     meta  |-> IF key \in DOMAIN r THEN r[key] ELSE NoMeta]

\* Repository.Exists.
Exists(r, key) == key \in DOMAIN r

\* The keys of ks in ascending lexical order.
RECURSIVE SortKeys(_)
SortKeys(ks) ==
    IF ks = {} THEN <<>>
    ELSE LET m == CHOOSE k \in ks : \A o \in ks : o = k \/ StrLess(k, o)
         IN  <<m>> \o SortKeys(ks \ {m})

\* Repository.Find: the (key, Metadata) pairs whose key starts with prefix,
\* in ascending key order.
Find(r, prefix) ==
    LET ks == SortKeys({k \in DOMAIN r : HasPrefix(k, prefix)})
    IN  [i \in 1..Len(ks) |-> [key |-> ks[i], meta |-> r[ks[i]]]]

\* Load that installs only the entries whose key it does not hold yet.
LoadNewKeys(r, content, parses) ==
    IF parses
    THEN [err |-> FALSE,
          repo |-> [k \in DOMAIN Parse(content) \ DOMAIN r |->
                      Parse(content)[k]]]
    ELSE [err |-> TRUE, repo |-> r]

\* Load that writes the parsed entries into the map it already holds.
LoadInPlace(r, content, parses) ==
    IF parses
    THEN [err |-> FALSE,
          repo |-> [k \in DOMAIN r \cup DOMAIN Parse(content) |->
                      IF k \in DOMAIN Parse(content)
                      THEN Parse(content)[k] ELSE r[k]]]
    ELSE [err |-> TRUE, repo |-> r]

\* Repository.Load: parse the opened file off to the side and install the
\* result as the Repository's state; on an error the state stays as it was.
Load(r, content, parses) ==
    IF parses THEN [err |-> FALSE, repo |-> Parse(content)]
              ELSE [err |-> TRUE,  repo |-> r]

----------------------------------------------------------------------------
(* Files *)

Missing == "<missing>"

EnvFile      == ".env"
ExampleFile  == ".env.example"
RootPath     == "/srv/app"
EnvPath      == RootPath \o "/" \o EnvFile

\* Contents a definitions file can have on disk.
Contents ==
    { "B=1\nAB=1\nA=\n",
        \* file order is not key order; A is empty; the last line is terminated
      "#A=1\n\nA_=\n A_ = \"1\" \nB"
        \* comment, blank line, A_ assigned twice (padded and quoted the second
        \* time), a last line without separator and without terminator; neither
        \* A nor B is defined
    }

\* Contents the example file can have on disk: it defines A (empty), AB and B.
ExampleContents == {"B=1\nAB=1\nA=\n"}

\* FileCache.Open: the file's content, or an error when it cannot be opened.
Open(fs, name) ==
    [err |-> fs[name] = Missing, content |-> fs[name]]

\* End position of the parsed tree of a file: row of the last line and the
\* length of that line, 0-indexed.
EndPosition(content) ==
    LET ls == SplitLines(content)
    IN  [Row |-> Len(ls) - 1, Column |-> Len(ls[Len(ls)])]

----------------------------------------------------------------------------
(* Requests *)

Features == {"Hover", "ResolveDefinition", "ResolveCompletion",
             "Diagnostic", "ResolveCodeAction"}

\* Features whose query returns at most one node (the node at a position).
PositionFeatures == {"Hover", "ResolveDefinition", "ResolveCompletion"}

\* Processes that can run a handler.
Procs == {1, 2}

\* Key texts the query collaborator extracts from accessor nodes.
NodeKeys == {"", "A", "B"}

\* An accessor node as the provider sees it: GetKey and HasDefault.
NodesOver(keys, defaults) == [key : keys, hasDefault : defaults]

NodeSeqs(keys, defaults, n) ==
    UNION {[1..m -> NodesOver(keys, defaults)] : m \in 0..n}

\* What a request carries: the feature and the nodes its query returns.
\* Only Diagnostic asks a node for its default argument, so only its nodes
\* vary in it.
InputsOver(features, keys, defaults) ==
    {[feature |-> f, nodes |-> ns] :
        f \in features \cap PositionFeatures,
        ns \in NodeSeqs(keys, {FALSE}, 1)}
    \cup
    {[feature |-> f, nodes |-> ns] :
        f \in features \cap {"ResolveCodeAction"},
        ns \in NodeSeqs(keys, {FALSE}, MaxNodes)}
    \cup
    {[feature |-> f, nodes |-> ns] :
        f \in features \cap {"Diagnostic"},
        ns \in NodeSeqs(keys, defaults, MaxNodes)}

AllInputs == InputsOver(Features, NodeKeys, BOOLEAN)

\* The requests that are made twice: every feature, keys A and B.
TwiceInputs == InputsOver(Features, {"A", "B"}, {FALSE})

\* The requests of the concurrent specification: every feature, one key.
ConcInputs == InputsOver(Features, {"A"}, {FALSE})

\* queries.GetKey, queries.HasDefault, Node.Range
GetKey(node) == node.key
HasDefault(node) == node.hasDefault
NodeRange(ns, i) == i

VARIABLES
    files,        \* disk: file name -> content or Missing
    cache,        \* FileCache entry of the primary file (content last opened)
    repo,         \* Provider.repo
    exampleRepo,  \* Provider.exampleRepo
    pc,           \* per process: position in its handler
    feature,      \* per process: the handler running
    nodes,        \* per process: nodes returned by the query
    idx,          \* per process: loop index over nodes
    published,    \* per process: what ctx.Publish received, in order
    exOk,         \* per process: outcome of the example refresh
    repoOk,       \* per process: outcome of the primary refresh
    envRead       \* per process: primary file content its refresh opened

vars == <<files, cache, repo, exampleRepo, pc, feature, nodes, idx,
          published, exOk, repoOk, envRead>>

shared == <<files, cache, repo, exampleRepo>>

Init ==
    /\ files = [n \in {EnvFile, ExampleFile} |-> Missing]
    /\ cache = Missing
    /\ repo = EmptyRepo
    /\ exampleRepo = EmptyRepo
    /\ pc = [r \in Procs |-> "idle"]
    /\ feature = [r \in Procs |-> "Hover"]
    /\ nodes = [r \in Procs |-> <<>>]
    /\ idx = [r \in Procs |-> 1]
    /\ published = [r \in Procs |-> <<>>]
    /\ exOk = [r \in Procs |-> "none"]
    /\ repoOk = [r \in Procs |-> "none"]
    /\ envRead = [r \in Procs |-> Missing]

\* The environment rewrites, creates or removes a definitions file.
EditFile(names, contents) ==
    /\ \E n \in names, c \in contents \cup {Missing} :
          /\ c /= files[n]
          /\ files' = [files EXCEPT ![n] = c]
    /\ UNCHANGED <<cache, repo, exampleRepo, pc, feature, nodes, idx,
                   published, exOk, repoOk, envRead>>

\* updateRepoFile that empties the Repository when the file cannot be opened.
UpdateRepoFileReset(fs, name, r, parses) ==
    LET f == Open(fs, name)
    IN  IF f.err
        THEN [ok |-> FALSE, repo |-> EmptyRepo, opened |-> FALSE]
        ELSE LET l == Load(r, f.content, parses)
             IN  [ok |-> ~l.err, repo |-> l.repo, opened |-> TRUE]

\* updateRepoFile: open through the cache, then Load into the Repository.
UpdateRepoFile(fs, name, r, parses) ==
    LET f == Open(fs, name)
    IN  IF f.err
        THEN [ok |-> FALSE, repo |-> r, opened |-> FALSE]
        ELSE LET l == Load(r, f.content, parses)
             IN  [ok |-> ~l.err, repo |-> l.repo, opened |-> TRUE]

\* Request that refreshes whatever the query returned.
RequestAlwaysRefresh(r, inputs) ==
    /\ pc[r] = "idle"
    /\ \E in \in inputs :
          /\ feature' = [feature EXCEPT ![r] = in.feature]
          /\ nodes' = [nodes EXCEPT ![r] = in.nodes]
          /\ pc' = [pc EXCEPT ![r] = "example"]
    /\ UNCHANGED <<shared, idx, published, exOk, repoOk, envRead>>

\* A handler is entered: the query collaborator returns the nodes; with no
\* node the handler returns at once, otherwise it goes on to updateRepo.
Request(r, inputs) ==
    /\ pc[r] = "idle"
    /\ \E in \in inputs :
          /\ feature' = [feature EXCEPT ![r] = in.feature]
          /\ nodes' = [nodes EXCEPT ![r] = in.nodes]
          /\ pc' = [pc EXCEPT ![r] =
                      IF Len(in.nodes) > 0 THEN "example" ELSE "done"]
    /\ UNCHANGED <<shared, idx, published, exOk, repoOk, envRead>>

\* UpdateExample whose failure ends the handler.
UpdateExampleRequired(r) ==
    /\ pc[r] = "example"
    /\ \E parses \in BOOLEAN :
          LET u == UpdateRepoFile(files, ExampleFile, exampleRepo, parses)
          IN  /\ exampleRepo' = u.repo
              /\ exOk' = [exOk EXCEPT ![r] = IF u.ok THEN "ok" ELSE "failed"]
              /\ pc' = [pc EXCEPT ![r] = IF u.ok THEN "primary" ELSE "done"]
    /\ UNCHANGED <<files, cache, repo, feature, nodes, idx, published, repoOk,
                   envRead>>

\* updateRepo, first call: the example file; its result is dropped.
UpdateExample(r) ==
    /\ pc[r] = "example"
    /\ \E parses \in BOOLEAN :
          LET u == UpdateRepoFile(files, ExampleFile, exampleRepo, parses)
          IN  /\ exampleRepo' = u.repo
              /\ exOk' = [exOk EXCEPT ![r] = IF u.ok THEN "ok" ELSE "failed"]
    /\ pc' = [pc EXCEPT ![r] = "primary"]
    /\ UNCHANGED <<files, cache, repo, feature, nodes, idx, published, repoOk,
                   envRead>>

\* UpdatePrimary that undoes the example refresh when the primary one fails.
UpdatePrimaryRollback(r) ==
    /\ pc[r] = "primary"
    /\ \E parses \in BOOLEAN :
          LET u == UpdateRepoFile(files, EnvFile, repo, parses)
          IN  /\ repo' = u.repo
              /\ exampleRepo' = IF u.ok THEN exampleRepo ELSE EmptyRepo
              /\ envRead' = [envRead EXCEPT ![r] = files[EnvFile]]
              /\ cache' = IF u.opened THEN files[EnvFile] ELSE cache
              /\ repoOk' = [repoOk EXCEPT ![r] = IF u.ok THEN "ok" ELSE "failed"]
              /\ pc' = [pc EXCEPT ![r] = IF u.ok THEN "work" ELSE "done"]
    /\ idx' = [idx EXCEPT ![r] = 1]
    /\ UNCHANGED <<files, feature, nodes, published, exOk>>

\* UpdatePrimary whose result is dropped like the example file's.
UpdatePrimaryOptional(r) ==
    /\ pc[r] = "primary"
    /\ \E parses \in BOOLEAN :
          LET u == UpdateRepoFile(files, EnvFile, repo, parses)
          IN  /\ repo' = u.repo
              /\ cache' = IF u.opened THEN files[EnvFile] ELSE cache
              /\ repoOk' = [repoOk EXCEPT ![r] = IF u.ok THEN "ok" ELSE "failed"]
              /\ pc' = [pc EXCEPT ![r] = "work"]
              /\ envRead' = [envRead EXCEPT ![r] = files[EnvFile]]
    /\ idx' = [idx EXCEPT ![r] = 1]
    /\ UNCHANGED <<files, exampleRepo, feature, nodes, published, exOk>>

\* updateRepo, second call: the primary file; its result is the handler's
\* go/no-go.
UpdatePrimary(r) ==
    /\ pc[r] = "primary"
    /\ \E parses \in BOOLEAN :
          LET u == UpdateRepoFile(files, EnvFile, repo, parses)
          IN  /\ repo' = u.repo
              /\ cache' = IF u.opened THEN files[EnvFile] ELSE cache
              /\ repoOk' = [repoOk EXCEPT ![r] = IF u.ok THEN "ok" ELSE "failed"]
              /\ pc' = [pc EXCEPT ![r] = IF u.ok THEN "work" ELSE "done"]
              /\ envRead' = [envRead EXCEPT ![r] = files[EnvFile]]
    /\ idx' = [idx EXCEPT ![r] = 1]
    /\ UNCHANGED <<files, exampleRepo, feature, nodes, published, exOk>>

Publish(r, items) ==
    published' = [published EXCEPT ![r] = published[r] \o items]

\* HoverContent without the empty-value branch.
HoverContentNoEmpty(r, key) ==
    LET g == Get(r, key)
    IN  IF ~g.found THEN "[undefined]" ELSE g.meta.Value

\* Hover content for a key.
HoverContent(r, key) ==
    LET g == Get(r, key)
    IN  IF ~g.found THEN "[undefined]"
        ELSE IF Len(g.meta.Value) < 1 THEN "[empty]"
        ELSE g.meta.Value

\* Hover without the empty-key return.
HoverAnyKey(r) ==
    /\ pc[r] = "work" /\ feature[r] = "Hover"
    /\ Publish(r, <<[kind |-> "hover",
                     Content |-> HoverContent(repo, GetKey(nodes[r][1]))]>>)
    /\ pc' = [pc EXCEPT ![r] = "done"]
    /\ UNCHANGED <<shared, feature, nodes, idx, exOk, repoOk, envRead>>

Hover(r) ==
    /\ pc[r] = "work" /\ feature[r] = "Hover"
    /\ LET key == GetKey(nodes[r][1])
       IN  IF Len(key) < 1
           THEN UNCHANGED published
           ELSE Publish(r, <<[kind |-> "hover",
                              Content |-> HoverContent(repo, key)]>>)
    /\ pc' = [pc EXCEPT ![r] = "done"]
    /\ UNCHANGED <<shared, feature, nodes, idx, exOk, repoOk, envRead>>

\* ResolveDefinition that publishes a location whether or not the key is found.
ResolveDefinitionAlways(r) ==
    /\ pc[r] = "work" /\ feature[r] = "ResolveDefinition"
    /\ LET g == Get(repo, GetKey(nodes[r][1]))
       IN  Publish(r, <<[kind |-> "location", URI |-> EnvPath,
                         Line |-> g.meta.Line,
                         Character |-> g.meta.Column]>>)
    /\ pc' = [pc EXCEPT ![r] = "done"]
    /\ UNCHANGED <<shared, feature, nodes, idx, exOk, repoOk, envRead>>

ResolveDefinition(r) ==
    /\ pc[r] = "work" /\ feature[r] = "ResolveDefinition"
    /\ LET g == Get(repo, GetKey(nodes[r][1]))
       IN  IF g.found
           THEN Publish(r, <<[kind |-> "location", URI |-> EnvPath,
                              Line |-> g.meta.Line,
                              Character |-> g.meta.Column]>>)
           ELSE UNCHANGED published
    /\ pc' = [pc EXCEPT ![r] = "done"]
    /\ UNCHANGED <<shared, feature, nodes, idx, exOk, repoOk, envRead>>

\* CompletionItems that ignores the typed text.
CompletionItemsAll(r, text) ==
    LET found == Find(r, "")
    IN  [i \in 1..Len(found) |->
            [kind |-> "completion", Label |-> found[i].key,
             Detail |-> found[i].meta.Value, Kind |-> "Constant"]]

CompletionItems(r, text) ==
    LET found == Find(r, text)
    IN  [i \in 1..Len(found) |->
            [kind |-> "completion", Label |-> found[i].key,
             Detail |-> found[i].meta.Value, Kind |-> "Constant"]]

ResolveCompletion(r) ==
    /\ pc[r] = "work" /\ feature[r] = "ResolveCompletion"
    /\ Publish(r, CompletionItems(repo, GetKey(nodes[r][1])))
    /\ pc' = [pc EXCEPT ![r] = "done"]
    /\ UNCHANGED <<shared, feature, nodes, idx, exOk, repoOk, envRead>>

\* DiagnosticFor that does not ask for the default argument.
DiagnosticForNoDefault(r, ns, i) ==
    IF ~Exists(r, GetKey(ns[i]))
    THEN <<[kind |-> "diagnostic", Range |-> NodeRange(ns, i),
            Severity |-> "Error",
            Message |-> "Environment variable is not defined"]>>
    ELSE <<>>

\* One iteration of Diagnostic's loop over the captures.
DiagnosticFor(r, ns, i) ==
    IF ~Exists(r, GetKey(ns[i])) /\ ~HasDefault(ns[i])
    THEN <<[kind |-> "diagnostic", Range |-> NodeRange(ns, i),
            Severity |-> "Error",
            Message |-> "Environment variable is not defined"]>>
    ELSE <<>>

Diagnostic(r) ==
    /\ pc[r] = "work" /\ feature[r] = "Diagnostic"
    /\ Publish(r, DiagnosticFor(repo, nodes[r], idx[r]))
    /\ idx' = [idx EXCEPT ![r] = idx[r] + 1]
    /\ pc' = [pc EXCEPT ![r] = IF idx[r] < Len(nodes[r]) THEN "work" ELSE "done"]
    /\ UNCHANGED <<shared, feature, nodes, exOk, repoOk, envRead>>

\* InsertionRow that never steps past an unterminated last line.
InsertionRowEnd(endPos) == endPos.Row

\* Row at which a new line is inserted, from the tree's end position.
InsertionRow(endPos) ==
    IF endPos.Column /= 0 THEN endPos.Row + 1 ELSE endPos.Row

codeAction(uri, title, row, text) ==
    [kind |-> "codeAction", URI |-> uri, Title |-> title, Line |-> row,
     Text |-> text]

\* CodeActionsFor that offers the example value only when it is not empty.
CodeActionsForNonEmpty(r, ex, cached, key) ==
    IF Get(r, key).found THEN <<>>
    ELSE LET uri == "file://" \o EnvPath
             row == InsertionRow(EndPosition(cached))
             m   == Get(ex, key)
         IN  (IF m.found /\ Len(m.meta.Value) > 0
              THEN <<codeAction(uri, "Copy value from .env.example", row,
                                key \o "=" \o m.meta.Value)>>
              ELSE <<>>)
             \o <<codeAction(uri, "Add value to .env file", row, key \o "=")>>

\* CodeActionsFor whose row moves one down after each action it publishes.
CodeActionsForAdvancing(r, ex, cached, key) ==
    IF Get(r, key).found THEN <<>>
    ELSE LET uri == "file://" \o EnvPath
             row == InsertionRow(EndPosition(cached))
             m   == Get(ex, key)
         IN  IF m.found
             THEN <<codeAction(uri, "Copy value from .env.example", row,
                               key \o "=" \o m.meta.Value),
                    codeAction(uri, "Add value to .env file", row + 1,
                               key \o "=")>>
             ELSE <<codeAction(uri, "Add value to .env file", row, key \o "=")>>

\* The actions one iteration of ResolveCodeAction's loop publishes for a
\* non-empty key.
CodeActionsFor(r, ex, cached, key) ==
    IF Get(r, key).found THEN <<>>
    ELSE LET uri == "file://" \o EnvPath
             row == InsertionRow(EndPosition(cached))
             m   == Get(ex, key)
         IN  (IF m.found
              THEN <<codeAction(uri, "Copy value from .env.example", row,
                                key \o "=" \o m.meta.Value)>>
              ELSE <<>>)
             \o <<codeAction(uri, "Add value to .env file", row, key \o "=")>>

\* ResolveCodeAction that skips a node with an empty key and goes on.
ResolveCodeActionContinue(r) ==
    /\ pc[r] = "work" /\ feature[r] = "ResolveCodeAction"
    /\ LET key == GetKey(nodes[r][idx[r]])
       IN  IF Len(key) < 1
           THEN UNCHANGED published
           ELSE Publish(r, CodeActionsFor(repo, exampleRepo, cache, key))
    /\ pc' = [pc EXCEPT ![r] = IF idx[r] < Len(nodes[r]) THEN "work" ELSE "done"]
    /\ idx' = [idx EXCEPT ![r] = idx[r] + 1]
    /\ UNCHANGED <<shared, feature, nodes, exOk, repoOk, envRead>>

\* ResolveCodeAction, one iteration of the loop over the nodes of the range.
ResolveCodeAction(r) ==
    /\ pc[r] = "work" /\ feature[r] = "ResolveCodeAction"
    /\ LET key == GetKey(nodes[r][idx[r]])
       IN  IF Len(key) < 1
           THEN /\ UNCHANGED published
                /\ pc' = [pc EXCEPT ![r] = "done"]
           ELSE /\ Publish(r, CodeActionsFor(repo, exampleRepo, cache, key))
                /\ pc' = [pc EXCEPT ![r] =
                            IF idx[r] < Len(nodes[r]) THEN "work" ELSE "done"]
    /\ idx' = [idx EXCEPT ![r] = idx[r] + 1]
    /\ UNCHANGED <<shared, feature, nodes, exOk, repoOk, envRead>>

\* The handler has returned; the process is free for the next request.
Return(r) ==
    /\ pc[r] = "done"
    /\ pc' = [pc EXCEPT ![r] = "idle"]
    /\ nodes' = [nodes EXCEPT ![r] = <<>>]
    /\ idx' = [idx EXCEPT ![r] = 1]
    /\ published' = [published EXCEPT ![r] = <<>>]
    /\ exOk' = [exOk EXCEPT ![r] = "none"]
    /\ repoOk' = [repoOk EXCEPT ![r] = "none"]
    /\ feature' = [feature EXCEPT ![r] = "Hover"]
    /\ envRead' = [envRead EXCEPT ![r] = Missing]
    /\ UNCHANGED shared

\* One request at a time.
Next ==
    \/ EditFile({EnvFile}, Contents)
    \/ EditFile({ExampleFile}, ExampleContents)
    \/ Request(1, AllInputs)
    \/ UpdateExample(1)
    \/ UpdatePrimary(1)
    \/ Hover(1)
    \/ ResolveDefinition(1)
    \/ ResolveCompletion(1)
    \/ Diagnostic(1)
    \/ ResolveCodeAction(1)
    \/ Return(1)

Spec == Init /\ [][Next]_vars

\* Handlers of two requests interleave at every access to the shared
\* Repositories; the primary file changes under them.
NextConc ==
    \/ EditFile({EnvFile}, Contents)
    \/ \E r \in Procs :
          \/ Request(r, ConcInputs)
          \/ UpdateExample(r)
          \/ UpdatePrimary(r)
          \/ Hover(r)
          \/ ResolveDefinition(r)
          \/ ResolveCompletion(r)
          \/ Diagnostic(r)
          \/ ResolveCodeAction(r)
          \/ Return(r)

SpecConc == Init /\ [][NextConc]_vars

\* The same request made twice in sequence: process 1 handles it, then
\* process 2 handles it again while the first result is still held; the
\* files change only between such pairs.
NextTwice ==
    \/ /\ \A r \in Procs : pc[r] = "idle"
       /\ \/ EditFile({EnvFile}, Contents)
          \/ EditFile({ExampleFile}, ExampleContents)
    \/ /\ pc[2] = "idle"
       /\ Request(1, TwiceInputs)
    \/ /\ pc[1] = "done"
       /\ Request(2, {[feature |-> feature[1], nodes |-> nodes[1]]})
    \/ \E r \in Procs :
          \/ UpdateExample(r)
          \/ UpdatePrimary(r)
          \/ Hover(r)
          \/ ResolveDefinition(r)
          \/ ResolveCompletion(r)
          \/ Diagnostic(r)
          \/ ResolveCodeAction(r)
    \/ /\ pc[2] \in {"idle", "done"}
       /\ Return(1)
    \/ /\ pc[1] = "idle"
       /\ Return(2)

SpecTwice == Init /\ [][NextTwice]_vars

----------------------------------------------------------------------------
(* What the features are specified to publish *)

Done(r) == pc[r] = "done"

\* The handler of r found a node and its primary refresh succeeded.
Refreshed(r) == repoOk[r] = "ok"

KeyAt(ns, i) == ns[i].key

\* The hover for key k over primary snapshot r.
HoverAsSpecified(k, pub, r) ==
    /\ Len(pub) = 1
    /\ pub[1].kind = "hover"
    /\ k \notin DOMAIN r => pub[1].Content = "[undefined]"
    /\ k \in DOMAIN r /\ r[k].Value = "" => pub[1].Content = "[empty]"
    /\ k \in DOMAIN r /\ r[k].Value /= "" => pub[1].Content = r[k].Value

\* The location for key k over primary snapshot r.
DefinitionAsSpecified(k, pub, r) ==
    IF k \in DOMAIN r
    THEN pub = <<[kind |-> "location", URI |-> EnvPath,
                  Line |-> r[k].Line, Character |-> r[k].Column]>>
    ELSE pub = <<>>

\* The completion items for typed text k over primary snapshot r: one item
\* per key that starts with k, no other, in ascending key order.
CompletionAsSpecified(k, pub, r) ==
    /\ \A i \in 1..Len(pub) :
          /\ pub[i].kind = "completion"
          /\ pub[i].Label \in DOMAIN r
          /\ HasPrefix(pub[i].Label, k)
          /\ pub[i].Detail = r[pub[i].Label].Value
          /\ pub[i].Kind = "Constant"
    /\ \A key \in DOMAIN r :
          HasPrefix(key, k) =>
             Cardinality({i \in 1..Len(pub) : pub[i].Label = key}) = 1
    /\ \A i, j \in 1..Len(pub) : i < j => StrLess(pub[i].Label, pub[j].Label)

\* The diagnostics for nodes ns over primary snapshot r: one error at the
\* range of each node whose key is undefined and that has no default.
DiagnosticsAsSpecified(ns, pub, r) ==
    /\ \A j \in 1..Len(pub) :
          /\ pub[j].kind = "diagnostic"
          /\ pub[j].Severity = "Error"
          /\ pub[j].Range \in 1..Len(ns)
    /\ \A i \in 1..Len(ns) :
          Cardinality({j \in 1..Len(pub) : pub[j].Range = NodeRange(ns, i)})
            = IF KeyAt(ns, i) \notin DOMAIN r /\ ~ns[i].hasDefault
              THEN 1 ELSE 0

\* Title and edit text of the actions for one key that is looked up.
ActionsForKey(k, r, ex) ==
    IF k \in DOMAIN r THEN <<>>
    ELSE (IF k \in DOMAIN ex
          THEN <<[Title |-> "Copy value from .env.example",
                  Text |-> k \o "=" \o ex[k].Value]>>
          ELSE <<>>)
         \o <<[Title |-> "Add value to .env file", Text |-> k \o "="]>>

\* The actions for every node from the i-th on that has a key.
RECURSIVE ActionsForAll(_, _, _, _)
ActionsForAll(ns, i, r, ex) ==
    IF i > Len(ns) THEN <<>>
    ELSE (IF KeyAt(ns, i) = "" THEN <<>>
          ELSE ActionsForKey(KeyAt(ns, i), r, ex))
         \o ActionsForAll(ns, i + 1, r, ex)

\* The actions for the nodes from the i-th on that come before the first
\* node with an empty key.
RECURSIVE ActionsBeforeEmpty(_, _, _, _)
ActionsBeforeEmpty(ns, i, r, ex) ==
    IF i > Len(ns) \/ KeyAt(ns, i) = "" THEN <<>>
    ELSE ActionsForKey(KeyAt(ns, i), r, ex)
         \o ActionsBeforeEmpty(ns, i + 1, r, ex)

TitleText(pub) ==
    [i \in 1..Len(pub) |-> [Title |-> pub[i].Title, Text |-> pub[i].Text]]

\* The row on which an action may insert, given the primary file's content
\* as the cache holds it.
RowAsSpecified(row, cached) ==
    LET end == EndPosition(cached)
    IN  /\ end.Column = 0 => row = end.Row
        /\ end.Column /= 0 => row = end.Row + 1

\* No content on that row: the row is past the last line or the line is empty.
RowIsFree(row, cached) ==
    LET ls == SplitLines(cached)
    IN  row + 1 > Len(ls) \/ ls[row + 1] = ""

\* What the handler of feature f publishes for nodes ns once refreshed.
PublishedAsSpecified(f, ns, pub, r, ex, cached) ==
    CASE f = "Hover" ->
            IF KeyAt(ns, 1) = "" THEN pub = <<>>
            ELSE HoverAsSpecified(KeyAt(ns, 1), pub, r)
      [] f = "ResolveDefinition" -> DefinitionAsSpecified(KeyAt(ns, 1), pub, r)
      [] f = "ResolveCompletion" -> CompletionAsSpecified(KeyAt(ns, 1), pub, r)
      [] f = "Diagnostic" -> DiagnosticsAsSpecified(ns, pub, r)
      [] f = "ResolveCodeAction" ->
            /\ TitleText(pub) = ActionsBeforeEmpty(ns, 1, r, ex)
            /\ \A i \in 1..Len(pub) :
                  /\ pub[i].kind = "codeAction"
                  /\ RowAsSpecified(pub[i].Line, cached)

\* The snapshots a Repository can hold: the initial one and the parse of a
\* whole file.
Snapshots == {EmptyRepo} \cup {Parse(c) : c \in Contents}

----------------------------------------------------------------------------
(* Claims *)

\* C1: in each of the five features, when a node was found and the refresh
\* of the primary file failed (open or Load), the request publishes nothing
\* and is over.
C1_PrimaryFailurePublishesNothing ==
    \A r \in Procs :
       repoOk[r] = "failed" => Done(r) /\ published[r] = <<>>

\* A code action request for B, which the example file defines and the
\* primary Repository lacks, ended by a failed primary refresh.
C1_Witness ==
    /\ Done(1) /\ repoOk[1] = "failed" /\ exOk[1] = "ok"
    /\ feature[1] = "ResolveCodeAction"
    /\ KeyAt(nodes[1], 1) = "B"
    /\ "B" \notin DOMAIN repo /\ "B" \in DOMAIN exampleRepo

C2_Proceeds ==
    \A r \in Procs :
       Done(r) /\ exOk[r] = "failed" /\ Refreshed(r) =>
          PublishedAsSpecified(feature[r], nodes[r], published[r],
                               repo, exampleRepo, cache)

C2_Frame ==
    \A r \in Procs :
       pc[r] = "example" /\ pc'[r] /= "example" /\ exOk'[r] = "failed" =>
          exampleRepo' = exampleRepo /\ pc'[r] = "primary"

\* C2: a failed refresh of the example file never ends the request: the
\* example Repository stays as it was held, the handler goes on to the
\* primary file, and with that refreshed it publishes what the feature
\* publishes over the primary Repository and the held example Repository.
C2_ExampleFailureIgnored == [](C2_Proceeds) /\ [][C2_Frame]_vars

\* The example file could not be refreshed, and the copy action was still
\* published from the example Repository held from an earlier request.
C2_Witness ==
    /\ Done(1) /\ exOk[1] = "failed" /\ Refreshed(1)
    /\ feature[1] = "ResolveCodeAction"
    /\ Len(published[1]) = 2
    /\ published[1][1].Title = "Copy value from .env.example"

C4_NoNode ==
    \A r \in Procs :
       pc[r] /= "idle" /\ nodes[r] = <<>> =>
          /\ Done(r)
          /\ published[r] = <<>>
          /\ exOk[r] = "none" /\ repoOk[r] = "none"

C4_Frame ==
    \A r \in Procs :
       nodes'[r] = <<>> /\ Done(r)' => UNCHANGED <<repo, exampleRepo>>

\* C4: a request whose query finds no node publishes nothing, makes no
\* refresh attempt on either file, and leaves both Repositories unchanged.
C4_NoNodeNoEffect == [](C4_NoNode) /\ [][C4_Frame]_vars

\* A diagnostic request over a file without accessor nodes, at a moment when
\* a refresh would have replaced the primary Repository.
C4_Witness ==
    /\ Done(1) /\ nodes[1] = <<>> /\ feature[1] = "Diagnostic"
    /\ repo /= EmptyRepo
    /\ files[EnvFile] \in Contents
    /\ repo /= Parse(files[EnvFile])

\* The claim as first stated: in every feature a node with an empty key gets
\* nothing published.
C5_EmptyKeyPublishesNothing ==
    \A r \in Procs :
       Done(r) /\ Refreshed(r) =>
          /\ feature[r] \in PositionFeatures /\ KeyAt(nodes[r], 1) = "" =>
                published[r] = <<>>
          /\ feature[r] = "Diagnostic" =>
                \A i \in 1..Len(nodes[r]), j \in 1..Len(published[r]) :
                   KeyAt(nodes[r], i) = "" =>
                      published[r][j].Range /= NodeRange(nodes[r], i)
          /\ feature[r] = "ResolveCodeAction" =>
                \A j \in 1..Len(published[r]) :
                   ~HasPrefix(published[r][j].Text, "=")

\* C5 (amended): Hover, ResolveDefinition and ResolveCodeAction publish
\* nothing for a node whose key is empty.  ResolveCompletion takes the empty
\* key as the empty prefix and publishes one item per key of the primary
\* Repository; Diagnostic takes it as an undefined key and publishes a
\* diagnostic at the node unless the node has a default argument.
C5_EmptyKeyPerFeature ==
    \A r \in Procs :
       Done(r) /\ Refreshed(r) =>
          /\ feature[r] \in {"Hover", "ResolveDefinition"}
               /\ KeyAt(nodes[r], 1) = "" => published[r] = <<>>
          /\ feature[r] = "ResolveCodeAction" =>
                \A j \in 1..Len(published[r]) :
                   ~HasPrefix(published[r][j].Text, "=")
          /\ feature[r] = "ResolveCompletion" /\ KeyAt(nodes[r], 1) = "" =>
                {published[r][j].Label : j \in 1..Len(published[r])}
                   = DOMAIN repo
          /\ feature[r] = "Diagnostic" =>
                \A i \in 1..Len(nodes[r]) :
                   KeyAt(nodes[r], i) = "" =>
                      ((\E j \in 1..Len(published[r]) :
                           published[r][j].Range = NodeRange(nodes[r], i))
                       <=> ~nodes[r][i].hasDefault)

\* A completion request over a node with an empty key, answered with every
\* key of the primary file.
C5_Witness ==
    /\ Done(1) /\ Refreshed(1) /\ feature[1] = "ResolveCompletion"
    /\ KeyAt(nodes[1], 1) = ""
    /\ Len(published[1]) = 3

\* C6: Hover over a node with non-empty key k, once the primary refresh
\* succeeded, publishes exactly one hover: "[undefined]" when k is absent
\* from the primary Repository, "[empty]" when its value is empty, the value
\* otherwise.
C6_HoverContent ==
    \A r \in Procs :
       Done(r) /\ Refreshed(r) /\ feature[r] = "Hover"
          /\ KeyAt(nodes[r], 1) /= "" =>
             HoverAsSpecified(KeyAt(nodes[r], 1), published[r], repo)

\* A hover over A, which the primary file defines with an empty value.
C6_Witness ==
    /\ Done(1) /\ Refreshed(1) /\ feature[1] = "Hover"
    /\ KeyAt(nodes[1], 1) = "A"
    /\ "A" \in DOMAIN repo
    /\ published[1] = <<[kind |-> "hover", Content |-> "[empty]"]>>

\* C7: Diagnostic publishes for each node exactly one error diagnostic at
\* the node's range when the key is absent from the primary Repository and
\* the node has no default argument, and none for a node with a default or
\* with a defined key.
C7_DiagnosticIffUndefinedNoDefault ==
    \A r \in Procs :
       Done(r) /\ Refreshed(r) /\ feature[r] = "Diagnostic" =>
          DiagnosticsAsSpecified(nodes[r], published[r], repo)

\* Two nodes for the undefined key B, the first with a default argument and
\* the second without: only the second has a diagnostic.
C7_Witness ==
    /\ Done(1) /\ Refreshed(1) /\ feature[1] = "Diagnostic"
    /\ Len(nodes[1]) = 2
    /\ KeyAt(nodes[1], 1) = "B" /\ nodes[1][1].hasDefault
    /\ KeyAt(nodes[1], 2) = "B" /\ ~nodes[1][2].hasDefault
    /\ "B" \notin DOMAIN repo
    /\ Len(published[1]) = 1 /\ published[1][1].Range = 2

\* The claim as first stated: every node of the range whose key is absent
\* from the primary Repository gets its actions (a node without a key being
\* read as having none to get).
C8_ActionsForEveryNode ==
    \A r \in Procs :
       Done(r) /\ Refreshed(r) /\ feature[r] = "ResolveCodeAction" =>
          TitleText(published[r]) = ActionsForAll(nodes[r], 1, repo, exampleRepo)

\* C8 (amended): ResolveCodeAction publishes, for each node of the range that
\* comes before the first node with an empty key and whose key k is absent
\* from the primary Repository, an "add value" action with text k= and,
\* before it, a "copy from example" action with text k=<example value>
\* exactly when k is in the example Repository (an empty example value
\* included); for a node whose key is in the primary Repository, nothing.
C8_ActionsBeforeEmptyKey ==
    \A r \in Procs :
       Done(r) /\ Refreshed(r) /\ feature[r] = "ResolveCodeAction" =>
          TitleText(published[r])
             = ActionsBeforeEmpty(nodes[r], 1, repo, exampleRepo)

\* A, absent from the primary file and defined empty in the example file:
\* the copy action and the add action both insert A=.
C8_Witness ==
    /\ Done(1) /\ Refreshed(1) /\ feature[1] = "ResolveCodeAction"
    /\ Len(nodes[1]) = 1 /\ KeyAt(nodes[1], 1) = "A"
    /\ TitleText(published[1])
         = <<[Title |-> "Copy value from .env.example", Text |-> "A="],
             [Title |-> "Add value to .env file", Text |-> "A="]>>

\* C9: every published code action inserts at the end row of the primary
\* file's tree when the end column is 0 and at the end row + 1 otherwise, so
\* on a row that holds no content.
C9_InsertionRow ==
    \A r \in Procs :
       Refreshed(r) /\ feature[r] = "ResolveCodeAction" =>
          \A j \in 1..Len(published[r]) :
             /\ RowAsSpecified(published[r][j].Line, cache)
             /\ RowIsFree(published[r][j].Line, cache)

\* An action for a primary file whose last line is not terminated: the row
\* is the one after the end row.
C9_Witness ==
    /\ Done(1) /\ Refreshed(1) /\ feature[1] = "ResolveCodeAction"
    /\ Len(published[1]) > 0
    /\ EndPosition(cache).Column /= 0
    /\ published[1][1].Line = EndPosition(cache).Row + 1

C11_DefinitionLocation ==
    \A r \in Procs :
       Done(r) /\ Refreshed(r) /\ feature[r] = "ResolveDefinition" =>
          DefinitionAsSpecified(KeyAt(nodes[r], 1), published[r], repo)

\* Go-to-definition on A, which the primary file defines on its third line.
C11_Witness ==
    /\ Done(1) /\ Refreshed(1) /\ feature[1] = "ResolveDefinition"
    /\ KeyAt(nodes[1], 1) = "A"
    /\ published[1] = <<[kind |-> "location", URI |-> EnvPath,
                         Line |-> 2, Character |-> 0]>>

\* The lines of content that define a key no later line defines again.
LastOccurrences(content) ==
    LET ls == SplitLines(content)
    IN  {i \in 1..Len(ls) :
            /\ IsDefinition(ls[i])
            /\ \A j \in (i + 1)..Len(ls) :
                  IsDefinition(ls[j]) => LineKey(ls[j]) /= LineKey(ls[i])}

\* C12: after a successful Load of the primary file, Get of every key the
\* content defines, once or several times, is found and returns the value
\* and the (line, column) of the key's last textual occurrence; the snapshot
\* holds exactly one Entry per defined key (Find over the empty prefix lists
\* each defined key once and lists no other key).
C12_LastOccurrenceWins ==
    \A r \in Procs :
       pc[r] \in {"work", "done"} /\ Refreshed(r) =>
          LET ls   == SplitLines(cache)
              all  == Find(repo, "")
          IN  /\ \A i \in LastOccurrences(cache) :
                    /\ Get(repo, LineKey(ls[i])) =
                          [found |-> TRUE,
                           meta  |-> [Value  |-> LineValue(ls[i]),
                                      Line   |-> i - 1,
                                      Column |-> LeadingBlanks(ls[i])]]
                    /\ Cardinality({n \in 1..Len(all) :
                                      all[n].key = LineKey(ls[i])}) = 1
              /\ Len(all) = Cardinality(LastOccurrences(cache))

\* The primary file assigns A_ on its third line and again, padded and
\* quoted, on its fourth; Get answers with the fourth.
C12_Witness ==
    /\ pc[1] = "work" /\ Refreshed(1)
    /\ Cardinality({i \in 1..Len(SplitLines(cache)) :
                       IsDefinition(SplitLines(cache)[i])
                       /\ LineKey(SplitLines(cache)[i]) = "A_"}) = 2
    /\ Get(repo, "A_") = [found |-> TRUE,
                          meta  |-> [Value |-> "1", Line |-> 3, Column |-> 1]]

\* Keys a lookup can be made with: the keys of every file and of the nodes.
LookupKeys == NodeKeys \cup UNION {DOMAIN Parse(c) : c \in Contents}

\* Two Repositories answer every Get, Exists and Find alike.
SameAnswers(r1, r2) ==
    \A k \in LookupKeys :
       /\ Get(r1, k) = Get(r2, k)
       /\ Exists(r1, k) = Exists(r2, k)
       /\ Find(r1, k) = Find(r2, k)

C14_OpenFailure ==
    \A r \in Procs :
       pc[r] = "example" /\ pc'[r] /= "example"
       /\ Open(files, ExampleFile).err =>
          /\ exOk'[r] = "failed"
          /\ SameAnswers(exampleRepo', exampleRepo)
          /\ DOMAIN exampleRepo' = DOMAIN exampleRepo

C14_OnlyRefreshWrites ==
    (\A r \in Procs : pc[r] /= "example") => exampleRepo' = exampleRepo

\* C14: a refresh that cannot open the example file leaves the example
\* Repository as the request found it: no step of a request other than the
\* example refresh writes it, and the example refresh over a file that does
\* not open keeps every key with the answer it had (and adds none), be the
\* Repository still empty or holding an earlier snapshot.
C14_ExampleKeptOnOpenFailure ==
    [][C14_OpenFailure /\ C14_OnlyRefreshWrites]_vars

\* The example file was loaded by an earlier request and has been removed
\* since; this request's example refresh failed and the earlier snapshot is
\* still held.
C14_Witness ==
    /\ pc[1] = "primary" /\ exOk[1] = "failed"
    /\ Open(files, ExampleFile).err
    /\ exampleRepo /= EmptyRepo

\* The order of the two attempts, read off a handler's position: the primary
\* file is attempted only after the example file, and a handler that found
\* a node is past both attempts before it looks anything up or returns.
C16_Order ==
    \A r \in Procs :
       /\ repoOk[r] /= "none" => exOk[r] /= "none"
       /\ pc[r] = "primary" => exOk[r] /= "none" /\ repoOk[r] = "none"
       /\ pc[r] \in {"work", "done"} /\ Len(nodes[r]) > 0 =>
             exOk[r] /= "none" /\ repoOk[r] /= "none"

C16_Steps ==
    \A r \in Procs :
       \* the example attempt is followed by the primary one, whatever it gave
       /\ pc[r] = "example" /\ pc'[r] /= "example" =>
             pc'[r] = "primary" /\ exOk'[r] \in {"ok", "failed"}
       \* the primary attempt, failing, ends the request and leaves the
       \* example Repository with what the example attempt installed
       /\ pc[r] = "primary" /\ repoOk'[r] = "failed" =>
             /\ pc'[r] = "done"
             /\ published'[r] = <<>>
             /\ exampleRepo' = exampleRepo
       \* a primary file that does not open does not replace the Repository
       /\ pc[r] = "primary" /\ pc'[r] /= "primary"
          /\ Open(files, EnvFile).err =>
             repoOk'[r] = "failed" /\ repo' = repo
       \* returning from the aborted request changes neither Repository
       /\ Done(r) /\ repoOk[r] = "failed" /\ pc'[r] /= "done" =>
             exampleRepo' = exampleRepo /\ repo' = repo

\* C16: a refresh attempts the example file first and then the primary file
\* whatever the example attempt gave; when the example attempt succeeds and
\* the primary one fails the request ends with nothing published, the
\* example Repository keeps the snapshot just loaded, and a primary file
\* that cannot be opened does not replace the primary Repository.
C16_ExampleThenPrimary == [](C16_Order) /\ [][C16_Steps]_vars

\* An aborted request: the example file was loaded, the primary file is
\* missing, and the example Repository holds the example file's snapshot.
C16_Witness ==
    /\ Done(1) /\ exOk[1] = "ok" /\ repoOk[1] = "failed"
    /\ Open(files, EnvFile).err
    /\ ~Open(files, ExampleFile).err
    /\ exampleRepo = Parse(files[ExampleFile])
    /\ exampleRepo /= EmptyRepo
    /\ published[1] = <<>>

\* Index of the first node with an empty key; past the end when there is none.
FirstEmpty(ns) ==
    LET empties == {i \in 1..Len(ns) : KeyAt(ns, i) = ""}
    IN  IF empties = {} THEN Len(ns) + 1
        ELSE CHOOSE i \in empties : \A j \in empties : i <= j

\* C17: in ResolveCodeAction the first node with an empty key ends the
\* request: the loop never goes past it, and at every point of the request,
\* its end included, what is published is the actions of the nodes handled
\* so far that come before that node - nothing for it, nothing for a later
\* node, and the actions of earlier nodes still there.
C17_EmptyKeyStopsRequest ==
    \A r \in Procs :
       pc[r] \in {"work", "done"} /\ Refreshed(r)
       /\ feature[r] = "ResolveCodeAction" =>
          LET e       == FirstEmpty(nodes[r])
              handled == IF idx[r] - 1 < e - 1 THEN idx[r] - 1 ELSE e - 1
          IN  /\ idx[r] <= e + 1
              /\ pc[r] = "work" => idx[r] <= e
              /\ Done(r) /\ e <= Len(nodes[r]) => idx[r] = e + 1
              /\ TitleText(published[r])
                   = ActionsForAll(SubSeq(nodes[r], 1, handled), 1,
                                   repo, exampleRepo)

\* A range whose first node has an empty key and whose second node has a
\* key the primary file does not define: the request ended at the first
\* node with nothing published.
C17_Witness ==
    /\ Done(1) /\ Refreshed(1) /\ feature[1] = "ResolveCodeAction"
    /\ Len(nodes[1]) = 2
    /\ KeyAt(nodes[1], 1) = "" /\ KeyAt(nodes[1], 2) = "B"
    /\ "B" \notin DOMAIN repo
    /\ idx[1] = 2
    /\ published[1] = <<>>

\* C18: at every point of a ResolveCodeAction request, all the code actions
\* it has published carry one and the same insertion row and the URI of the
\* primary definitions file, whichever node and whichever missing key each
\* was published for; the row of an action is that of the action before it.
C18_OneRowOneURI ==
    \A r \in Procs :
       feature[r] = "ResolveCodeAction" =>
          /\ \A i \in 1..Len(published[r]) :
                /\ published[r][i].URI = "file://" \o RootPath \o "/.env"
                /\ published[r][i].Line = published[r][1].Line
          /\ \A i \in 2..Len(published[r]) :
                published[r][i].Line <= published[r][i - 1].Line

\* Two nodes with the different keys A and B, neither in the primary file,
\* both in the example file: four actions, all on row 5.
C18_Witness ==
    /\ Done(1) /\ Refreshed(1) /\ feature[1] = "ResolveCodeAction"
    /\ Len(nodes[1]) = 2 /\ Len(published[1]) = 4
    /\ KeyAt(nodes[1], 1) = "A" /\ KeyAt(nodes[1], 2) = "B"
    /\ "A" \notin DOMAIN repo /\ "B" \notin DOMAIN repo
    /\ [i \in 1..Len(published[1]) |-> published[1][i].Text]
         = <<"A=", "A=", "B=1", "B=">>
    /\ \A i \in 1..4 : published[1][i].Line = 5

\* C15: every result a request publishes is computed from the primary
\* Repository snapshot that the request's own refresh installed, also when
\* other requests refresh the Repositories between this request's refresh
\* and its lookups (stated for the features that read the primary
\* Repository only).
C15_OwnSnapshot ==
    \A r \in Procs :
       Done(r) /\ Refreshed(r) /\ feature[r] /= "ResolveCodeAction" =>
          PublishedAsSpecified(feature[r], nodes[r], published[r],
                               Parse(envRead[r]), exampleRepo, cache)

C13_SameResults ==
    Done(1) /\ Done(2)
    /\ feature[2] = feature[1] /\ nodes[2] = nodes[1]
    /\ exOk[2] = exOk[1] /\ repoOk[2] = repoOk[1] =>
       published[2] = published[1]

C13_SameRepositories ==
    /\ Done(1) /\ pc[2] = "example" /\ exOk'[2] = exOk[1] =>
          SameAnswers(exampleRepo', exampleRepo)
    /\ Done(1) /\ pc[2] = "primary" /\ repoOk'[2] = repoOk[1] =>
          SameAnswers(repo', repo)

====
